---- MODULE Spec2Model ----
(***************************************************************************)
(* The request-translation and session-management logic of the bridge      *)
(* (anthropic-proxy/src/proxy.ts): the process-wide state, the HTTP         *)
(* handlers that read and write it, and the suspension points of the async  *)
(* handlers (the backend calls made by createSession and sendMessage).      *)
(*                                                                         *)
(* A handler body runs to its next await of a backend call in one step of  *)
(* the event loop; other handlers may run between the issue of a backend   *)
(* call and the resumption with its reply. An await of an already settled  *)
(* promise (sendMessage returning "OK" without a fetch) resumes in the     *)
(* same turn's microtask queue, before any other request is dispatched, so *)
(* it is part of the same step.                                            *)
(***************************************************************************)
EXTENDS Integers, Sequences, FiniteSets, Bags, TLC

VARIABLES
    currentSessionId,   \* proxy.ts:13  the held session id, NoSession when null
    totalTokensUsed,    \* proxy.ts:14
    totalRequests,      \* proxy.ts:15
    currentModel,       \* proxy.ts:16
    req,                \* the async handlers suspended at a backend call: a bag
                        \* of continuations, each with the locals it resumes with
    ev,                 \* what the last handler step did: the request it served,
                        \* the session id held when it began, the backend call
                        \* it issued, what sendMessage returned to it and the
                        \* response it sent
    hist                \* history variable, not read by any handler: what the
                        \* chat requests have done since the counters were last
                        \* reset (kept under SpecH, constant under Spec)

vars == <<currentSessionId, totalTokensUsed, totalRequests, currentModel, req, ev, hist>>

---------------------------------------------------------------------------
(* Bounds of the model *)

\* handlers that may be suspended at a backend call at the same time
MaxInFlight == 2
\* chat requests admitted while the counters have not been reset
MaxRequests == 2
\* the backend hands out session ids 1..MaxSessionId
MaxSessionId == 2

SessionIds == 1..MaxSessionId

---------------------------------------------------------------------------
(* Program constants *)

\* let currentSessionId: string | null = null
NoSession == 0

DefaultModel == "minimax-m2.5-free"

AVAILABLE_MODELS == <<
    [id |-> "minimax-m2.5-free", name |-> "MiniMax M2.5 Free", provider |-> "OpenCode"],
    [id |-> "anthropic/claude-sonnet-4-5-20250929", name |-> "Claude Sonnet 4.5", provider |-> "Anthropic"],
    [id |-> "anthropic/claude-opus-4-5-20250929", name |-> "Claude Opus 4.5", provider |-> "Anthropic"],
    [id |-> "anthropic/claude-haiku-4-5-20250929", name |-> "Claude Haiku 4.5", provider |-> "Anthropic"],
    [id |-> "openai/gpt-4o", name |-> "GPT-4o", provider |-> "OpenAI"],
    [id |-> "openai/gpt-4o-mini", name |-> "GPT-4o Mini", provider |-> "OpenAI"],
    [id |-> "google/gemini-2-flash", name |-> "Gemini 2 Flash", provider |-> "Google"],
    [id |-> "google/gemini-1.5-pro", name |-> "Gemini 1.5 Pro", provider |-> "Google"],
    [id |-> "ollama/llama3", name |-> "Llama 3", provider |-> "Ollama"],
    [id |-> "ollama/codellama", name |-> "CodeLlama", provider |-> "Ollama"] >>

---------------------------------------------------------------------------
(* Values of the request and reply bodies *)

\* a message content: a string, an array of parts, or anything else (null)
Str(t) == [kind |-> "string", text |-> t]
Arr(ps) == [kind |-> "array", parts |-> ps]
NullContent == [kind |-> "null"]

\* an element of a content array: a string, an object with or without a
\* text field, or null
PStr(t) == [kind |-> "string", text |-> t]
PObj(t) == [kind |-> "object", hasText |-> TRUE, text |-> t]
PObjNoText == [kind |-> "object", hasText |-> FALSE]
PNull == [kind |-> "null"]

U(c) == [role |-> "user", content |-> c]
A(c) == [role |-> "assistant", content |-> c]

\* the messages field of a request body: absent (undefined), an array, or a
\* truthy value that is not iterable (an object)
AbsentMessages == [kind |-> "absent"]
ObjectMessages == [kind |-> "object"]
List(items) == [kind |-> "list", items |-> items]

MessageLists == {
    << U(Str("count")) >>,
    << U(Str("hi there")) >>,
    << U(Str("hello")), A(Str("hi there")) >>,
    << U(Str("hello")), U(Str("hi there")) >>,
    << U(Str("hi there")), U(Str("hi")) >>,
    << A(Str("hello")), U(Str("hi")) >>,
    << U(Arr(<< PObj("a"), PStr("b"), PObj("c") >>)), U(Arr(<< PObjNoText, PNull >>)),
       U(NullContent) >> }

MessagesFields == {AbsentMessages, ObjectMessages} \cup {List(l) : l \in MessageLists}

\* the model a client names in its requests: an Anthropic id, which the
\* registry does not hold. proxy.ts:225 reads the field and never uses it.
RequestModel == "claude-sonnet-4-5-20250929"

\* a POST /v1/messages body: whether max_tokens is given, messages, model
Bodies == [hasMaxTokens : BOOLEAN, messages : MessagesFields, model : {RequestModel}]

NoBody == [hasMaxTokens |-> FALSE, messages |-> AbsentMessages]

\* modelId of POST /api/model: two registered ids, an unregistered one
ModelIdInputs == {"minimax-m2.5-free", "openai/gpt-4o", "no/such-model"}

---------------------------------------------------------------------------
(* Pure functions *)

RECURSIVE JoinParts(_)
JoinParts(ps) ==
    IF ps = <<>> THEN ""
    ELSE LET c == Head(ps)
             t == IF c.kind = "string" THEN c.text
                  ELSE IF c.kind = "object" /\ c.hasText THEN c.text
                  ELSE ""
         IN  t \o JoinParts(Tail(ps))

\* mutant: of an array only the first element is read
extractTextFromContent_FirstPart(content) ==
    IF content.kind = "string" THEN content.text
    ELSE IF content.kind = "array" /\ content.parts # <<>>
    THEN JoinParts(<< Head(content.parts) >>)
    ELSE ""

extractTextFromContent(content) ==
    IF content.kind = "string" THEN content.text
    ELSE IF content.kind = "array" THEN JoinParts(content.parts)
    ELSE ""

\* mutant: the quotient is rounded down
CeilDiv4_Floor(n) == n \div 4

\* Math.ceil(n / 4)
CeilDiv4(n) == IF n % 4 = 0 THEN n \div 4 ELSE (n \div 4) + 1

\* proxy.ts:217-221 and 259-263: the per-message sum of the count loops
RECURSIVE CountLoop(_)
CountLoop(items) ==
    IF items = <<>> THEN 0
    ELSE CeilDiv4(Len(extractTextFromContent(Head(items).content)))
         + CountLoop(Tail(items))

\* mutant: the "count" probe is not filtered out
Meaningful_NoSentinel(m) ==
    LET content == extractTextFromContent(m.content)
    IN  m.role = "user" /\ content # "" /\ Len(content) > 2

\* proxy.ts:67: content && content.length > 2 && content !== "count"
Meaningful(m) ==
    LET content == extractTextFromContent(m.content)
    IN  m.role = "user" /\ content # "" /\ Len(content) > 2 /\ content # "count"

\* proxy.ts:61-72: the scan of the reversed list, as the index (in the
\* original order) of the message it stops at, 0 when it finds none
RECURSIVE ScanReversed(_, _)
ScanReversed(items, i) ==
    IF i = 0 THEN 0
    ELSE IF Meaningful(items[i]) THEN i
    ELSE ScanReversed(items, i - 1)

\* mutant: the list is scanned without being reversed
lastUserMessage_First(items) ==
    IF \E i \in 1..Len(items) : Meaningful(items[i])
    THEN CHOOSE i \in 1..Len(items) :
             Meaningful(items[i]) /\ \A j \in 1..(i - 1) : ~Meaningful(items[j])
    ELSE 0

lastUserMessage(items) == ScanReversed(items, Len(items))

\* proxy.ts:97-106: the text parts of the reply, concatenated
RECURSIVE fullResponse(_)
fullResponse(parts) ==
    IF parts = <<>> THEN ""
    ELSE (IF Head(parts).type = "text" THEN Head(parts).text ELSE "")
         \o fullResponse(Tail(parts))

\* proxy.ts:100: data.parts && Array.isArray(data.parts)
ReplyText(data) ==
    IF data.parts.kind = "list" THEN fullResponse(data.parts.items) ELSE ""

\* mutant: without a reported total the tokens are estimated from the text
ReplyTokens_Estimated(data) ==
    IF data.info.hasInfo /\ data.info.hasTokens /\ data.info.hasTotal
    THEN data.info.total
    ELSE CeilDiv4(Len(ReplyText(data)))

\* proxy.ts:108-110: data.info?.tokens, then tokens.total || 0
ReplyTokens(data) ==
    IF data.info.hasInfo /\ data.info.hasTokens
    THEN IF data.info.hasTotal /\ data.info.total # 0 THEN data.info.total ELSE 0
    ELSE 0

\* mutant: an unknown id falls back to the first registry entry
FindModel_OrDefault(modelId) ==
    IF \E i \in 1..Len(AVAILABLE_MODELS) : AVAILABLE_MODELS[i].id = modelId
    THEN {i \in 1..Len(AVAILABLE_MODELS) : AVAILABLE_MODELS[i].id = modelId}
    ELSE {1}

\* mutant: any modelId that is given is accepted
FindModel_Given(modelId) == IF modelId # "" THEN {1} ELSE {}

\* proxy.ts:153: AVAILABLE_MODELS.find(m => m.id === modelId)
FindModel(modelId) ==
    {i \in 1..Len(AVAILABLE_MODELS) : AVAILABLE_MODELS[i].id = modelId}

---------------------------------------------------------------------------
(* Replies of the backend *)

CreateReplies == {[ok |-> FALSE]} \cup {[ok |-> TRUE, id |-> i] : i \in SessionIds}

NoInfo == [hasInfo |-> FALSE]
InfoNoTokens == [hasInfo |-> TRUE, hasTokens |-> FALSE]
InfoNoTotal == [hasInfo |-> TRUE, hasTokens |-> TRUE, hasTotal |-> FALSE]
InfoTotal(n) == [hasInfo |-> TRUE, hasTokens |-> TRUE, hasTotal |-> TRUE, total |-> n]

TextPart(t) == [type |-> "text", text |-> t]
ToolPart(t) == [type |-> "tool", text |-> t]

ReplyDatas ==
    { [parts |-> [kind |-> "absent"], info |-> NoInfo],
      [parts |-> [kind |-> "list", items |-> << TextPart("hello") >>], info |-> InfoTotal(7)],
      [parts |-> [kind |-> "list", items |-> << TextPart("hello") >>], info |-> InfoNoTotal],
      [parts |-> [kind |-> "list", items |-> << TextPart("he"), ToolPart("x"), TextPart("y") >>],
       info |-> InfoNoTokens],
      [parts |-> [kind |-> "list", items |-> << ToolPart("x") >>], info |-> InfoTotal(0)] }

SendReplies == {[ok |-> FALSE]} \cup {[ok |-> TRUE, data |-> d] : d \in ReplyDatas}

-------------------------------------------------------------------------------------------------------------------------------------------------
(* Suspended handlers, backend calls and responses *)

\* POST /api/reset-session awaiting createSession (proxy.ts:170)
AwaitReset == [pc |-> "awaitReset"]
\* POST /v1/messages awaiting createSession (proxy.ts:228), with its body
AwaitCreate(body) == [pc |-> "awaitCreate", body |-> body]
\* POST /v1/messages awaiting the fetch of sendMessage (proxy.ts:80), with
\* the session id and the text the call carries
AwaitSend(sid, text) == [pc |-> "awaitSend", sid |-> sid, text |-> text]

Suspend(c) == req (+) SetToBag({c})
Resume(c) == req (-) SetToBag({c})
Suspended == BagToSet(req)

NoCall == [kind |-> "none"]
CreateCall == [kind |-> "create"]
SendCall(sid, text) == [kind |-> "send", sid |-> sid, text |-> text]

NoRelay == [kind |-> "none"]
Relay(text, tokens) == [kind |-> "result", text |-> text, tokens |-> tokens]

\* no response sent by this step
NoResponse == [status |-> 0]

\* proxy.ts:250-252
ApiError(message) ==
    [status |-> 500, body |-> [error |-> [type |-> "api_error", message |-> message]]]

\* mutant: the response names the model of the request
MessageResponse_EchoesRequest(text) ==
    [status |-> 200,
     body |-> [type |-> "message", role |-> "assistant",
               content |-> << [type |-> "text", text |-> text] >>,
               model |-> RequestModel, stop_reason |-> "end_turn",
               usage |-> [output_tokens |-> CeilDiv4(Len(text))]]]

\* proxy.ts:236-247, without the generated id and the input_tokens estimate of
\* the serialized request
MessageResponse(text) ==
    [status |-> 200,
     body |-> [type |-> "message", role |-> "assistant",
               content |-> << [type |-> "text", text |-> text] >>,
               model |-> currentModel, stop_reason |-> "end_turn",
               usage |-> [output_tokens |-> CeilDiv4(Len(text))]]]

Ev(op, body, call, relay, resp) ==
    [op |-> op, body |-> body, held |-> currentSessionId,
     call |-> call, relay |-> relay, resp |-> resp]

\* POST /v1/messages handlers in flight
InFlightChats ==
    BagCardinality(req) - (IF BagIn(AwaitReset, req) THEN CopiesIn(AwaitReset, req) ELSE 0)

\* nothing has happened yet: no chat request answered 200, no tokens reported
\* by the backend, no chat request failed on a backend call, no model selected
\* while a session was being created
NoHistory == [completed |-> 0, reported |-> 0, failed |-> FALSE, stale |-> 0]

---------------------------------------------------------------------------
(* Initial state: proxy.ts:13-16 *)

Init ==
    /\ currentSessionId = NoSession
    /\ totalTokensUsed = 0
    /\ totalRequests = 0
    /\ currentModel = DefaultModel
    /\ req = EmptyBag
    /\ ev = [op |-> "start", body |-> NoBody, held |-> NoSession,
             call |-> NoCall, relay |-> NoRelay, resp |-> NoResponse]
    /\ hist = NoHistory

---------------------------------------------------------------------------
(* Handlers *)

\* mutant: the server serves nothing while a backend call is outstanding
GetStatus_Blocked ==
    /\ req = EmptyBag
    /\ ev' = Ev("status", NoBody, NoCall, NoRelay,
                [status |-> 200,
                 body |-> [currentModel |-> currentModel,
                           totalRequests |-> totalRequests,
                           totalTokensUsed |-> totalTokensUsed,
                           sessionId |-> IF currentSessionId # NoSession
                                         THEN "active" ELSE "inactive"]])
    /\ UNCHANGED <<currentSessionId, totalTokensUsed, totalRequests, currentModel, req>>

\* mutant: the session is reported active whether or not an id is held
GetStatus_AlwaysActive ==
    /\ ev' = Ev("status", NoBody, NoCall, NoRelay,
                [status |-> 200,
                 body |-> [currentModel |-> currentModel,
                           totalRequests |-> totalRequests,
                           totalTokensUsed |-> totalTokensUsed,
                           sessionId |-> "active"]])
    /\ UNCHANGED <<currentSessionId, totalTokensUsed, totalRequests, currentModel, req>>

\* proxy.ts:136-145  GET /api/status
GetStatus ==
    /\ ev' = Ev("status", NoBody, NoCall, NoRelay,
                [status |-> 200,
                 body |-> [currentModel |-> currentModel,
                           totalRequests |-> totalRequests,
                           totalTokensUsed |-> totalTokensUsed,
                           sessionId |-> IF currentSessionId # NoSession
                                         THEN "active" ELSE "inactive"]])
    /\ UNCHANGED <<currentSessionId, totalTokensUsed, totalRequests, currentModel, req>>

\* mutant: the held session survives the model change
Invalidated_Kept == currentSessionId

\* proxy.ts:156: currentSessionId = null
Invalidated == NoSession

\* proxy.ts:151-161  POST /api/model
PostModel(modelId) ==
    LET model == FindModel(modelId)
    IN  IF model # {}
        THEN /\ currentModel' = modelId
             /\ currentSessionId' = Invalidated
             /\ ev' = Ev("model", [modelId |-> modelId], NoCall, NoRelay,
                         [status |-> 200,
                          body |-> [success |-> TRUE,
                                    model |-> AVAILABLE_MODELS[CHOOSE i \in model : TRUE]]])
             /\ UNCHANGED <<totalTokensUsed, totalRequests, req>>
        ELSE /\ ev' = Ev("model", [modelId |-> modelId], NoCall, NoRelay,
                         [status |-> 400,
                          body |-> [success |-> FALSE, error |-> "Model not found"]])
             /\ UNCHANGED <<currentSessionId, totalTokensUsed, totalRequests,
                            currentModel, req>>

\* mutant: only the token counter is zeroed
ResetStats_TokensOnly ==
    /\ totalTokensUsed' = 0
    /\ ev' = Ev("resetStats", NoBody, NoCall, NoRelay,
                [status |-> 200, body |-> [success |-> TRUE]])
    /\ UNCHANGED <<currentSessionId, totalRequests, currentModel, req>>

\* proxy.ts:163-167  POST /api/reset-stats
ResetStats ==
    /\ totalTokensUsed' = 0
    /\ totalRequests' = 0
    /\ ev' = Ev("resetStats", NoBody, NoCall, NoRelay,
                [status |-> 200, body |-> [success |-> TRUE]])
    /\ UNCHANGED <<currentSessionId, currentModel, req>>

\* mutant: a held session is returned as it is (ensure in place of reset)
ResetSession_OnlyWhenAbsent ==
    IF currentSessionId # NoSession
    THEN /\ ev' = Ev("resetSession", NoBody, NoCall, NoRelay,
                     [status |-> 200,
                      body |-> [success |-> TRUE, sessionId |-> currentSessionId]])
         /\ UNCHANGED <<currentSessionId, totalTokensUsed, totalRequests,
                        currentModel, req>>
    ELSE /\ BagCardinality(req) < MaxInFlight
         /\ req' = Suspend(AwaitReset)
         /\ ev' = Ev("resetSession", NoBody, CreateCall, NoRelay, NoResponse)
         /\ UNCHANGED <<currentSessionId, totalTokensUsed, totalRequests, currentModel>>

\* proxy.ts:169-170  POST /api/reset-session, to the fetch of createSession
ResetSession ==
    /\ BagCardinality(req) < MaxInFlight
    /\ req' = Suspend(AwaitReset)
    /\ ev' = Ev("resetSession", NoBody, CreateCall, NoRelay, NoResponse)
    /\ UNCHANGED <<currentSessionId, totalTokensUsed, totalRequests, currentModel>>

\* An error thrown out of a route handler with no try. A synchronous throw
\* is caught by the router, whose default error handler answers 500.
Thrown(message) == [status |-> 500, body |-> [thrown |-> message]]

\* mutant: the rejection is always forwarded to the error handler
Rejected_Forwarded(message) == {Thrown(message)}

\* proxy.ts:169-172: the async handler has no try, so a rejected createSession
\* rejects the promise the handler returned. What becomes of it is the
\* router's business: express 4 ignores the promise and the request is never
\* answered, express 5 forwards the rejection to the error handler. The
\* version in use is not fixed by the sources: either outcome is possible.
Rejected(message) == {NoResponse, Thrown(message)}

\* proxy.ts:170-171 with 44-49: the handler resumed with the backend's reply
ResetSessionResumed(reply) ==
    /\ BagIn(AwaitReset, req)
    /\ req' = Resume(AwaitReset)
    /\ IF reply.ok
       THEN /\ currentSessionId' = reply.id
            /\ ev' = Ev("resetSessionResumed", NoBody, NoCall, NoRelay,
                        [status |-> 200,
                         body |-> [success |-> TRUE, sessionId |-> reply.id]])
       ELSE /\ currentSessionId' = currentSessionId
            /\ \E resp \in Rejected("Failed to create session") :
                   ev' = Ev("resetSessionResumed", NoBody, NoCall, NoRelay, resp)
    /\ UNCHANGED <<totalTokensUsed, totalRequests, currentModel>>

\* mutant: the probe is never recognised (max_tokens compared with null)
IsCountOnly_Never(body) == FALSE

\* proxy.ts:215: req.body?.max_tokens === undefined && req.body?.messages
IsCountOnly(body) == ~body.hasMaxTokens /\ body.messages.kind # "absent"

\* mutant: the held id is never consulted, every chat request creates
NoSessionHeld_Always == TRUE

\* mutant: a session is never created, the id is used as it is
NoSessionHeld_Never == FALSE

\* proxy.ts:227: !currentSessionId
NoSessionHeld == currentSessionId = NoSession

\* mutant: the count read before the await is written back after it, so the
\* increment of a request that completed meanwhile is lost
CountRequest_LostUpdate ==
    IF BagCardinality(req) > 1 THEN totalRequests ELSE totalRequests + 1

\* proxy.ts:233: totalRequests++
CountRequest == totalRequests + 1

\* mutant: = in place of +=
AddTokens_Overwrite(tokens) == tokens

\* proxy.ts:234: totalTokensUsed += tokens
AddTokens(tokens) == totalTokensUsed + tokens

\* proxy.ts:231-247 with 60-89: sendMessage called with sessionId, to its
\* fetch; and when it returns without one, the rest of the handler.
\* rest is the bag of the other suspended handlers.
SendMessage(op, rest, body, sessionId) ==
    IF body.messages.kind # "list"
    THEN \* [...messages] throws: the handler's catch answers
         /\ req' = rest
         /\ ev' = Ev(op, body, NoCall, NoRelay, ApiError("messages is not iterable"))
         /\ UNCHANGED <<totalTokensUsed, totalRequests>>
    ELSE LET i == lastUserMessage(body.messages.items)
         IN  IF i = 0
             THEN /\ req' = rest
                  /\ totalRequests' = CountRequest
                  /\ totalTokensUsed' = AddTokens(0)
                  /\ ev' = Ev(op, body, NoCall, Relay("OK", 0), MessageResponse("OK"))
             ELSE LET combinedContent ==
                          extractTextFromContent(body.messages.items[i].content)
                  IN  /\ req' = rest (+) SetToBag({AwaitSend(sessionId, combinedContent)})
                      /\ ev' = Ev(op, body, SendCall(sessionId, combinedContent),
                                  NoRelay, NoResponse)
                      /\ UNCHANGED <<totalTokensUsed, totalRequests>>

\* proxy.ts:213-231  POST /v1/messages, to its first backend call
PostMessages(body) ==
    IF IsCountOnly(body)
    THEN /\ ev' = Ev("messages", body, NoCall, NoRelay,
                     IF body.messages.kind = "list"
                     THEN [status |-> 200,
                           body |-> [tokens |-> CountLoop(body.messages.items)]]
                     ELSE ApiError("messages is not iterable"))
         /\ UNCHANGED <<currentSessionId, totalTokensUsed, totalRequests,
                        currentModel, req>>
    ELSE /\ BagCardinality(req) < MaxInFlight
         /\ totalRequests + InFlightChats < MaxRequests
         /\ IF NoSessionHeld
            THEN /\ req' = Suspend(AwaitCreate(body))
                 /\ ev' = Ev("messages", body, CreateCall, NoRelay, NoResponse)
                 /\ UNCHANGED <<currentSessionId, totalTokensUsed, totalRequests,
                                currentModel>>
            ELSE /\ SendMessage("messages", req, body, currentSessionId)
                 /\ UNCHANGED <<currentSessionId, currentModel>>

\* mutant: a failed creation is tried again instead of being reported
MessagesCreated_Retries(c, reply) ==
    /\ c.pc = "awaitCreate"
    /\ IF reply.ok
       THEN /\ currentSessionId' = reply.id
            /\ SendMessage("messagesCreated", Resume(c), c.body, reply.id)
            /\ UNCHANGED currentModel
       ELSE /\ req' = req
            /\ ev' = Ev("messagesCreated", c.body, CreateCall, NoRelay, NoResponse)
            /\ UNCHANGED <<currentSessionId, totalTokensUsed, totalRequests,
                           currentModel>>

\* mutant: the id is installed only when none is held, and the message is
\* sent to the session just created all the same
MessagesCreated_KeepsHeld(c, reply) ==
    /\ c.pc = "awaitCreate"
    /\ IF reply.ok
       THEN /\ currentSessionId' = IF currentSessionId = NoSession THEN reply.id
                                   ELSE currentSessionId
            /\ SendMessage("messagesCreated", Resume(c), c.body, reply.id)
            /\ UNCHANGED currentModel
       ELSE /\ req' = Resume(c)
            /\ ev' = Ev("messagesCreated", c.body, NoCall, NoRelay,
                        ApiError("Failed to create session"))
            /\ UNCHANGED <<currentSessionId, totalTokensUsed, totalRequests,
                           currentModel>>

\* mutant: the id is installed only when none is held (first write wins)
MessagesCreated_FirstWins(c, reply) ==
    /\ c.pc = "awaitCreate"
    /\ IF reply.ok
       THEN /\ currentSessionId' = IF currentSessionId = NoSession THEN reply.id
                                   ELSE currentSessionId
            /\ SendMessage("messagesCreated", Resume(c), c.body, currentSessionId')
            /\ UNCHANGED currentModel
       ELSE /\ req' = Resume(c)
            /\ ev' = Ev("messagesCreated", c.body, NoCall, NoRelay,
                        ApiError("Failed to create session"))
            /\ UNCHANGED <<currentSessionId, totalTokensUsed, totalRequests,
                           currentModel>>

\* proxy.ts:228-231 with 44-49: the handler resumed with createSession's reply
MessagesCreated(c, reply) ==
    /\ c.pc = "awaitCreate"
    /\ IF reply.ok
       THEN /\ currentSessionId' = reply.id
            /\ SendMessage("messagesCreated", Resume(c), c.body, reply.id)
            /\ UNCHANGED currentModel
       ELSE /\ req' = Resume(c)
            /\ ev' = Ev("messagesCreated", c.body, NoCall, NoRelay,
                        ApiError("Failed to create session"))
            /\ UNCHANGED <<currentSessionId, totalTokensUsed, totalRequests,
                           currentModel>>

\* mutant: the request is counted before the reply is looked at
MessagesSent_CountsFailure(c, reply) ==
    /\ c.pc = "awaitSend"
    /\ req' = Resume(c)
    /\ totalRequests' = CountRequest
    /\ IF reply.ok
       THEN LET text == ReplyText(reply.data)
                tokens == ReplyTokens(reply.data)
            IN  /\ totalTokensUsed' = AddTokens(tokens)
                /\ ev' = Ev("messagesSent", [reply |-> reply], NoCall,
                            Relay(text, tokens), MessageResponse(text))
       ELSE /\ ev' = Ev("messagesSent", [reply |-> reply], NoCall, NoRelay,
                        ApiError("Failed to send message"))
            /\ UNCHANGED totalTokensUsed
    /\ UNCHANGED <<currentSessionId, currentModel>>

\* mutant: a failed send drops the session, as a failed session would be
MessagesSent_DropsSession(c, reply) ==
    /\ c.pc = "awaitSend"
    /\ req' = Resume(c)
    /\ IF reply.ok
       THEN LET text == ReplyText(reply.data)
                tokens == ReplyTokens(reply.data)
            IN  /\ totalRequests' = CountRequest
                /\ totalTokensUsed' = AddTokens(tokens)
                /\ ev' = Ev("messagesSent", [reply |-> reply], NoCall,
                            Relay(text, tokens), MessageResponse(text))
                /\ UNCHANGED currentSessionId
       ELSE /\ ev' = Ev("messagesSent", [reply |-> reply], NoCall, NoRelay,
                        ApiError("Failed to send message"))
            /\ currentSessionId' = NoSession
            /\ UNCHANGED <<totalTokensUsed, totalRequests>>
    /\ UNCHANGED currentModel

\* proxy.ts:91-113 and 231-253: the handler resumed with the reply to the
\* message it sent
MessagesSent(c, reply) ==
    /\ c.pc = "awaitSend"
    /\ req' = Resume(c)
    /\ IF reply.ok
       THEN LET text == ReplyText(reply.data)
                tokens == ReplyTokens(reply.data)
            IN  /\ totalRequests' = CountRequest
                /\ totalTokensUsed' = AddTokens(tokens)
                /\ ev' = Ev("messagesSent", [reply |-> reply], NoCall,
                            Relay(text, tokens), MessageResponse(text))
       ELSE /\ ev' = Ev("messagesSent", [reply |-> reply], NoCall, NoRelay,
                        ApiError("Failed to send message"))
            /\ UNCHANGED <<totalTokensUsed, totalRequests>>
    /\ UNCHANGED <<currentSessionId, currentModel>>

\* proxy.ts:257-265  POST /v1/messages/count_tokens. The handler has no
\* try: iterating a value that is not iterable throws out of it.
PostCountTokens(messages) ==
    /\ ev' = Ev("countTokens", [messages |-> messages], NoCall, NoRelay,
                IF messages.kind = "list"
                THEN [status |-> 200, body |-> [tokens |-> CountLoop(messages.items)]]
                ELSE IF messages.kind = "absent"
                THEN [status |-> 200, body |-> [tokens |-> 0]]
                ELSE Thrown("messages is not iterable"))
    /\ UNCHANGED <<currentSessionId, totalTokensUsed, totalRequests, currentModel, req>>

Next ==
    \/ GetStatus /\ UNCHANGED hist
    \/ \E modelId \in ModelIdInputs : PostModel(modelId) /\ UNCHANGED hist
    \/ ResetStats /\ UNCHANGED hist
    \/ ResetSession /\ UNCHANGED hist
    \/ \E reply \in CreateReplies : ResetSessionResumed(reply) /\ UNCHANGED hist
    \/ \E body \in Bodies : PostMessages(body) /\ UNCHANGED hist
    \/ \E c \in Suspended, reply \in CreateReplies :
           MessagesCreated(c, reply) /\ UNCHANGED hist
    \/ \E c \in Suspended, reply \in SendReplies :
           MessagesSent(c, reply) /\ UNCHANGED hist
    \/ \E messages \in MessagesFields : PostCountTokens(messages) /\ UNCHANGED hist

Spec == Init /\ [][Next]_vars

---------------------------------------------------------------------------
(* Vocabulary of the claims *)

\* a chat request: POST /v1/messages that is not a count-only probe
\* (max_tokens absent alongside messages present)
ChatShape(body) == body.hasMaxTokens \/ body.messages.kind = "absent"

\* the steps of a POST /v1/messages handler on the chat path
ChatArrived == ev.op = "messages" /\ ChatShape(ev.body)
ChatStep == ChatArrived \/ ev.op \in {"messagesCreated", "messagesSent"}

\* a genuine user message: role user, text longer than 2 characters, not "count"
Qualifies(m) ==
    /\ m.role = "user"
    /\ Len(extractTextFromContent(m.content)) > 2
    /\ extractTextFromContent(m.content) # "count"

QualifyingIndexes(items) == {i \in 1..Len(items) : Qualifies(items[i])}

\* session-creation calls awaiting the backend's reply
CreatesInFlight(r) ==
    BagCardinality([c \in {d \in BagToSet(r) : d.pc \in {"awaitReset", "awaitCreate"}}
                       |-> r[c]])

\* message-send calls awaiting the backend's reply
SendsInFlight(r) ==
    BagCardinality([c \in {d \in BagToSet(r) : d.pc = "awaitSend"} |-> r[c]])

\* the sum over the messages of ceil(length(extractText(content)) / 4)
RECURSIVE SumOfEstimates(_)
SumOfEstimates(items) ==
    IF items = <<>> THEN 0
    ELSE LET n == Len(extractTextFromContent(items[Len(items)].content))
         IN  SumOfEstimates(SubSeq(items, 1, Len(items) - 1)) + ((n + 3) \div 4)

IsTextPart(part) == part.type = "text"

RECURSIVE Concatenation(_)
Concatenation(parts) ==
    IF parts = <<>> THEN "" ELSE parts[1].text \o Concatenation(Tail(parts))

\* the relay result the claims expect of a successful reply
ExpectedText(data) ==
    IF data.parts.kind = "absent" THEN ""
    ELSE Concatenation(SelectSeq(data.parts.items, IsTextPart))

ExpectedTokens(data) ==
    IF data.info.hasInfo /\ data.info.hasTokens /\ data.info.hasTotal
    THEN data.info.total ELSE 0

RegistryIds == {AVAILABLE_MODELS[i].id : i \in 1..Len(AVAILABLE_MODELS)}

---------------------------------------------------------------------------
(* The program with its history recorded *)

\* the step just taken answered a chat request 200
ChatSucceeded == ChatStep' /\ ev'.resp.status = 200

\* the tokens the backend reported to the request the step answered
TokensReported ==
    IF ev'.op = "messagesSent" THEN ExpectedTokens(ev'.body.reply.data) ELSE 0

\* the explicit resets: reset-stats, reset-session, model selection
ExplicitReset == ev'.op \in {"resetStats", "resetSession", "resetSessionResumed", "model"}

\* hist after a step; failure: the step resumed a chat request with a failed
\* reply of the backend.
\*   completed, reported: the chat requests answered 200 and the tokens the
\*     backend reported to them, since the last reset-stats
\*   failed: a chat request has failed on a backend call, leaving no request
\*     in flight, and no explicit reset has run since
Observe(failure) ==
    hist' = [completed |-> IF ev'.op = "resetStats" THEN 0
                           ELSE IF ChatSucceeded THEN hist.completed + 1
                           ELSE hist.completed,
             reported |-> IF ev'.op = "resetStats" THEN 0
                          ELSE IF ChatSucceeded THEN hist.reported + TokensReported
                          ELSE hist.reported,
             failed |-> IF ExplicitReset THEN FALSE
                        ELSE hist.failed \/ (failure /\ req' = EmptyBag),
             stale |-> hist.stale]

NextH ==
    \/ GetStatus /\ Observe(FALSE)
    \/ \E modelId \in ModelIdInputs : PostModel(modelId) /\ Observe(FALSE)
    \/ ResetStats /\ Observe(FALSE)
    \/ ResetSession /\ Observe(FALSE)
    \/ \E reply \in CreateReplies : ResetSessionResumed(reply) /\ Observe(FALSE)
    \/ \E body \in Bodies : PostMessages(body) /\ Observe(FALSE)
    \/ \E c \in Suspended, reply \in CreateReplies :
           MessagesCreated(c, reply) /\ Observe(~reply.ok)
    \/ \E c \in Suspended, reply \in SendReplies :
           MessagesSent(c, reply) /\ Observe(~reply.ok)
    \/ \E messages \in MessagesFields : PostCountTokens(messages) /\ Observe(FALSE)

SpecH == Init /\ [][NextH]_vars

\* hist after a step, for the session-creation calls in flight:
\*   stale: at least this many of them were issued before the last successful
\*     model selection. The selection makes every call in flight stale; the
\*     resumption of a creation removes one call, which may be a stale one.
ObserveStale ==
    hist' = [hist EXCEPT !.stale =
                IF ev'.op = "model" /\ ev'.resp.status = 200
                THEN CreatesInFlight(req')
                ELSE IF ev'.op \in {"messagesCreated", "resetSessionResumed"}
                          /\ hist.stale > 0
                THEN hist.stale - 1
                ELSE hist.stale]

NextM ==
    \/ GetStatus /\ ObserveStale
    \/ \E modelId \in ModelIdInputs : PostModel(modelId) /\ ObserveStale
    \/ ResetStats /\ ObserveStale
    \/ ResetSession /\ ObserveStale
    \/ \E reply \in CreateReplies : ResetSessionResumed(reply) /\ ObserveStale
    \/ \E body \in Bodies : PostMessages(body) /\ ObserveStale
    \/ \E c \in Suspended, reply \in CreateReplies :
           MessagesCreated(c, reply) /\ ObserveStale
    \/ \E c \in Suspended, reply \in SendReplies :
           MessagesSent(c, reply) /\ ObserveStale
    \/ \E messages \in MessagesFields : PostCountTokens(messages) /\ ObserveStale

SpecM == Init /\ [][NextM]_vars

---------------------------------------------------------------------------
(* The pure functions and the counting handlers on their own *)

MaxTextLen == 5
MaxParts == 3
MaxMessages == 2

Letters == << "a", "b", "c", "d", "e", "f", "g", "h" >>

\* the text of n characters: "", "a", "ab", "abc", "abcd", "abcde", ...
RECURSIVE Text(_)
Text(n) == IF n = 0 THEN "" ELSE Text(n - 1) \o Letters[((n - 1) % Len(Letters)) + 1]

SeqsUpTo(S, n) == UNION {[1..k -> S] : k \in 0..n}

\* the elements of a content array
PartValues ==
    {PStr(t) : t \in {"a", "b", "c"}} \cup {PObj(t) : t \in {"", "a", "b", "c"}}
        \cup {PObjNoText, PNull}

\* the contents extractTextFromContent is applied to
Contents ==
    {Str(Text(n)) : n \in 0..MaxTextLen}
        \cup {Arr(ps) : ps \in SeqsUpTo(PartValues, MaxParts)}
        \cup {NullContent}

\* the contents of the messages the counting handlers are given
CountContents ==
    {Str(Text(n)) : n \in 0..MaxTextLen}
        \cup {NullContent, Arr(<< >>),
              Arr(<< PObj("abcd"), PObj("e") >>),
              Arr(<< PStr("abcd"), PObj("e") >>),
              Arr(<< PObj("a"), PStr("b"), PObj("c") >>),
              Arr(<< PObjNoText, PNull >>)}

CountLists == SeqsUpTo({U(c) : c \in CountContents}, MaxMessages)

CountFields == {AbsentMessages, ObjectMessages} \cup {List(l) : l \in CountLists}

\* proxy.ts:52-58 applied to a content
ExtractText(content) ==
    /\ ev' = [op |-> "extractText", content |-> content,
              result |-> extractTextFromContent(content)]
    /\ UNCHANGED <<currentSessionId, totalTokensUsed, totalRequests, currentModel, req>>

\* proxy.ts:220 and 262: Math.ceil(content.length / 4) applied to a text
EstimateTokens(text) ==
    /\ ev' = [op |-> "estimate", text |-> text, result |-> CeilDiv4(Len(text))]
    /\ UNCHANGED <<currentSessionId, totalTokensUsed, totalRequests, currentModel, req>>

\* part_001:288: typeof msg.content === "string" ? msg.content
\*                                           : msg.content?.[0]?.text || ""
\* (a string element has no text property)
firstPartText(content) ==
    IF content.kind = "string" THEN content.text
    ELSE IF content.kind = "array" /\ content.parts # <<>>
    THEN LET c == Head(content.parts)
         IN  IF c.kind = "object" /\ c.hasText THEN c.text ELSE ""
    ELSE ""

\* part_001:287-290: the loop of the older variant of the handler
RECURSIVE LegacyCountLoop(_)
LegacyCountLoop(items) ==
    IF items = <<>> THEN 0
    ELSE CeilDiv4(Len(firstPartText(Head(items).content)))
         + LegacyCountLoop(Tail(items))

\* part_001:284-294  POST /v1/messages/count_tokens, the older variant of
\* the handler that the repository keeps beside proxy.ts
PostCountTokensLegacy(messages) ==
    /\ ev' = Ev("countTokensLegacy", [messages |-> messages], NoCall, NoRelay,
                IF messages.kind = "list"
                THEN [status |-> 200,
                      body |-> [tokens |-> LegacyCountLoop(messages.items)]]
                ELSE IF messages.kind = "absent"
                THEN [status |-> 200, body |-> [tokens |-> 0]]
                ELSE Thrown("messages is not iterable"))
    /\ UNCHANGED <<currentSessionId, totalTokensUsed, totalRequests, currentModel, req>>

\* a POST /v1/messages body that proxy.ts:215 takes as a counting request
CountBody(messages) ==
    [hasMaxTokens |-> FALSE, messages |-> messages, model |-> RequestModel]

\* a value about to be given to a function or sent to a counting handler
Given(of, arg) == [op |-> "given", of |-> of, arg |-> arg]

\* the program as constructed, and one value given
InitP ==
    /\ currentSessionId = NoSession
    /\ totalTokensUsed = 0
    /\ totalRequests = 0
    /\ currentModel = DefaultModel
    /\ req = EmptyBag
    /\ ev \in {Given("content", content) : content \in Contents}
            \cup {Given("text", Text(n)) : n \in 0..MaxTextLen}
            \cup {Given("messages", messages) : messages \in CountFields}
    /\ hist = NoHistory

\* each step applies a function to the value given, or serves one request
\* that carries it
NextP ==
    \/ \E content \in Contents :
           ev = Given("content", content) /\ ExtractText(content) /\ UNCHANGED hist
    \/ \E n \in 0..MaxTextLen :
           ev = Given("text", Text(n)) /\ EstimateTokens(Text(n)) /\ UNCHANGED hist
    \/ \E messages \in CountFields :
           ev = Given("messages", messages) /\ PostCountTokens(messages)
               /\ UNCHANGED hist
    \/ \E messages \in CountFields \ {AbsentMessages} :
           ev = Given("messages", messages) /\ PostMessages(CountBody(messages))
               /\ UNCHANGED hist
    \/ \E messages \in CountFields :
           ev = Given("messages", messages) /\ PostCountTokensLegacy(messages)
               /\ UNCHANGED hist

SpecP == InitP /\ [][NextP]_vars

---------------------------------------------------------------------------
(* One message list sent to both counting routes of an implementation *)

\* part_001:236-239: the loop of the counting branch of POST /v1/messages in
\* the older variant: typeof msg.content === "string" ? msg.content : ""
RECURSIVE LegacyCountOnlyLoop(_)
LegacyCountOnlyLoop(items) ==
    IF items = <<>> THEN 0
    ELSE (IF Head(items).content.kind = "string"
          THEN CeilDiv4(Len(Head(items).content.text)) ELSE 0)
         + LegacyCountOnlyLoop(Tail(items))

\* part_001:228-242 and 272-280  POST /v1/messages of the older variant,
\* given a counting request (231): it returns at 240, inside the try
PostMessagesLegacy(body) ==
    /\ IsCountOnly(body)
    /\ ev' = Ev("messagesLegacy", body, NoCall, NoRelay,
                IF body.messages.kind = "list"
                THEN [status |-> 200,
                      body |-> [tokens |-> LegacyCountOnlyLoop(body.messages.items)]]
                ELSE ApiError("messages is not iterable"))
    /\ UNCHANGED <<currentSessionId, totalTokensUsed, totalRequests, currentModel, req>>

\* the program as constructed, and one message list given
InitE ==
    /\ currentSessionId = NoSession
    /\ totalTokensUsed = 0
    /\ totalRequests = 0
    /\ currentModel = DefaultModel
    /\ req = EmptyBag
    /\ ev \in {Given("messages", List(l)) : l \in CountLists}
    /\ hist = NoHistory

\* the list is sent as a counting request to POST /v1/messages, and then to
\* POST /v1/messages/count_tokens of the same implementation
NextE ==
    \/ \E l \in CountLists :
           ev = Given("messages", List(l)) /\ PostMessages(CountBody(List(l)))
               /\ UNCHANGED hist
    \/ \E l \in CountLists :
           ev = Given("messages", List(l)) /\ PostMessagesLegacy(CountBody(List(l)))
               /\ UNCHANGED hist
    \/ \E l \in CountLists :
           ev.op = "messages" /\ ev.body.messages = List(l)
               /\ PostCountTokens(List(l)) /\ UNCHANGED hist
    \/ \E l \in CountLists :
           ev.op = "messagesLegacy" /\ ev.body.messages = List(l)
               /\ PostCountTokensLegacy(List(l)) /\ UNCHANGED hist

SpecE == InitE /\ [][NextE]_vars

---------------------------------------------------------------------------
(* Claims *)

\* C1: a chat request (max_tokens present) that finds a session id held
\* issues no session-creation call and leaves the held id unchanged; when it
\* has a message to forward, the message-send call is addressed to that id.
C1_HeldSessionReused ==
    [][ (ev'.op = "messages" /\ ev'.body.hasMaxTokens /\ currentSessionId # NoSession)
            => /\ ev'.call.kind # "create"
               /\ CreatesInFlight(req') = CreatesInFlight(req)
               /\ currentSessionId' = currentSessionId
               /\ (ev'.call.kind = "send" => ev'.call.sid = currentSessionId)
               /\ (ev'.body.messages.kind = "list"
                   /\ QualifyingIndexes(ev'.body.messages.items) # {}
                      => /\ ev'.call.kind = "send"
                         /\ req' = req (+) SetToBag({AwaitSend(currentSessionId,
                                                               ev'.call.text)})) ]_vars

C1_Witness ==
    /\ ev.op = "messages" /\ ev.body.hasMaxTokens /\ ev.held # NoSession
    /\ ev.call.kind = "send" /\ ev.call.sid = currentSessionId

\* C2: no session is held when the process starts, and a session-creation
\* call is issued only by a chat request that finds no session id held or by
\* a reset-session request; status, model selection, reset-stats, count-only
\* and count_tokens requests issue no backend call at all.
C2_CreationOnlyByChatOrReset ==
    /\ currentSessionId = NoSession
    /\ req = EmptyBag
    /\ [][ /\ (CreatesInFlight(req') > CreatesInFlight(req) \/ ev'.call.kind = "create")
                => \/ ev'.op = "resetSession"
                   \/ /\ ev'.op = "messages" /\ ChatShape(ev'.body)
                      /\ currentSessionId = NoSession
           /\ (\/ ev'.op \in {"status", "model", "resetStats", "countTokens"}
               \/ ev'.op = "messages" /\ ~ChatShape(ev'.body))
                => ev'.call = NoCall /\ req' = req ]_vars

C2_Witness ==
    /\ ev.op = "messages" /\ ev.held = NoSession /\ ev.call = CreateCall
    /\ BagIn(AwaitCreate(ev.body), req) /\ BagIn(AwaitReset, req)

\* C3: selecting a model id that is not in the registry changes neither
\* currentModel nor the held session id nor the usage counters, and is
\* answered 400 {success: false, error: "Model not found"}.
C3_UnknownModelRejected ==
    [][ (ev'.op = "model" /\ ev'.body.modelId \notin RegistryIds)
            => /\ UNCHANGED <<currentModel, currentSessionId, totalRequests,
                              totalTokensUsed>>
               /\ ev'.resp = [status |-> 400,
                              body |-> [success |-> FALSE,
                                        error |-> "Model not found"]] ]_vars

C3_Witness ==
    /\ ev.op = "model" /\ ev.body.modelId \notin RegistryIds /\ ev.resp.status = 400
    /\ currentSessionId # NoSession /\ totalRequests > 0 /\ totalTokensUsed > 0
    /\ currentModel # DefaultModel

\* C4: selecting a registered model id sets currentModel to it and clears the
\* held session id without a backend call; a chat request that then finds no
\* session id held issues a session-creation call first, and its message is
\* sent only by the step that handles that call's reply.
C4_ValidModelInvalidatesSession ==
    [][ /\ (ev'.op = "model" /\ ev'.body.modelId \in RegistryIds)
             => /\ currentModel' = ev'.body.modelId
                /\ currentSessionId' = NoSession
                /\ ev'.call = NoCall /\ req' = req
                /\ ev'.resp.status = 200
        /\ (ev'.op = "messages" /\ ChatShape(ev'.body) /\ currentSessionId = NoSession)
             => /\ ev'.call = CreateCall
                /\ req' = req (+) SetToBag({AwaitCreate(ev'.body)})
        /\ (ev'.call.kind = "send")
             => \/ ev'.op = "messages" /\ currentSessionId # NoSession
                \/ /\ ev'.op = "messagesCreated"
                   /\ BagIn(AwaitCreate(ev'.body), req)
                   /\ currentSessionId' = ev'.call.sid
                   /\ req' = (req (-) SetToBag({AwaitCreate(ev'.body)}))
                             (+) SetToBag({AwaitSend(ev'.call.sid, ev'.call.text)})
      ]_vars

C4_Witness ==
    /\ ev.op = "messages" /\ ev.held = NoSession /\ ev.call = CreateCall
    /\ totalRequests > 0 /\ currentModel # DefaultModel

\* C5: every POST /v1/messages request lacking max_tokens is answered exactly
\* {tokens: N}, N the sum over its messages of ceil(length(extractText)/4),
\* with no backend call and no change of the session id, the counters or the
\* model. (Violated: without messages the request takes the chat path.)
C5_EveryProbeCounted ==
    [][ (ev'.op = "messages" /\ ~ev'.body.hasMaxTokens)
            => /\ ev'.resp =
                    [status |-> 200,
                     body |-> [tokens |-> IF ev'.body.messages.kind = "list"
                                          THEN SumOfEstimates(ev'.body.messages.items)
                                          ELSE 0]]
               /\ ev'.call = NoCall /\ req' = req
               /\ UNCHANGED <<currentSessionId, totalRequests, totalTokensUsed,
                              currentModel>> ]_vars

\* C5, where the code agrees with it: the same for the requests that carry a
\* list of messages.
C5_ListProbeCounted ==
    [][ (ev'.op = "messages" /\ ~ev'.body.hasMaxTokens
         /\ ev'.body.messages.kind = "list")
            => /\ ev'.resp = [status |-> 200,
                              body |-> [tokens |->
                                            SumOfEstimates(ev'.body.messages.items)]]
               /\ ev'.call = NoCall /\ req' = req
               /\ UNCHANGED <<currentSessionId, totalRequests, totalTokensUsed,
                              currentModel>> ]_vars

\* C6: a chat request whose list holds no genuine user message issues no
\* message-send call, and once a session id is available sendMessage returns
\* {text: "OK", tokens: 0} to it.
C6_NoQualifyingIsNoOp ==
    (/\ ev.op \in {"messages", "messagesCreated"} /\ ChatShape(ev.body)
     /\ ev.body.messages.kind = "list"
     /\ QualifyingIndexes(ev.body.messages.items) = {})
        => /\ ev.call.kind # "send"
           /\ ev.op = "messages" /\ ev.held = NoSession => ev.call = CreateCall
           /\ ev.op = "messages" /\ ev.held # NoSession => ev.relay = Relay("OK", 0)
           /\ ev.op = "messagesCreated"
                => \/ ev.relay = Relay("OK", 0)
                   \/ ev.resp = ApiError("Failed to create session")

C6_Witness ==
    /\ ev.op = "messages" /\ ev.body.hasMaxTokens
    /\ ev.body.messages = List(<< U(Str("count")) >>)
    /\ ev.relay = Relay("OK", 0) /\ ev.call = NoCall

\* C7: a step of the relay that contacts the backend issues exactly one
\* message-send call, and its text is the extracted text of the last message
\* of the list that is a genuine user message.
C7_ForwardsLastQualifying ==
    [][ /\ (ev'.call.kind = "send")
             => /\ ev'.body.messages.kind = "list"
                /\ LET items == ev'.body.messages.items
                       q == QualifyingIndexes(items)
                   IN  /\ q # {}
                       /\ LET last == CHOOSE i \in q : \A j \in q : j <= i
                          IN  ev'.call.text = extractTextFromContent(items[last].content)
                /\ SendsInFlight(req') = SendsInFlight(req) + 1
                /\ BagIn(AwaitSend(ev'.call.sid, ev'.call.text), req')
        /\ SendsInFlight(req') > SendsInFlight(req) => ev'.call.kind = "send" ]_vars

C7_Witness ==
    /\ ev.call.kind = "send" /\ ev.call.text = "hi there"
    /\ ev.body.messages = List(<< U(Str("hello")), U(Str("hi there")) >>)

\* C8: for a successful reply sendMessage returns as text the concatenation,
\* in order, of the text of the parts of type "text" ("" without parts) and
\* as tokens info.tokens.total when the reply has one, 0 otherwise.
C8_ReplyParsed ==
    (ev.op = "messagesSent" /\ ev.body.reply.ok)
        => ev.relay = Relay(ExpectedText(ev.body.reply.data),
                            ExpectedTokens(ev.body.reply.data))

C8_Witness ==
    /\ ev.op = "messagesSent" /\ ev.body.reply.ok
    /\ ev.body.reply.data.info = InfoNoTokens
    /\ ev.relay = Relay("hey", 0)

\* C9: a chat request that is answered 200 raises totalRequests by 1 and
\* totalTokensUsed by the tokens sendMessage returned to it: by 7 when the
\* backend reports info.tokens.total = 7.
C9_SuccessCounted ==
    [][ (ChatStep' /\ ev'.resp.status = 200)
            => /\ totalRequests' = totalRequests + 1
               /\ ev'.relay.kind = "result"
               /\ totalTokensUsed' = totalTokensUsed + ev'.relay.tokens
               /\ (ev'.op = "messagesSent" /\ ev'.body.reply.data.info = InfoTotal(7))
                     => totalTokensUsed' = totalTokensUsed + 7 ]_vars

C9_Witness ==
    /\ ev.op = "messagesSent" /\ ev.resp.status = 200
    /\ ev.body.reply.data.info = InfoTotal(7)
    /\ totalRequests = 2 /\ totalTokensUsed = 14

\* C10: both counters are natural numbers, no step other than reset-stats
\* lowers either, and a chat request answered 500 leaves both as they were.
C10_CountersMonotonic ==
    /\ [](totalRequests \in Nat /\ totalTokensUsed \in Nat)
    /\ [][ /\ ev'.op # "resetStats"
                => totalRequests' >= totalRequests /\ totalTokensUsed' >= totalTokensUsed
           /\ (ChatStep' /\ ev'.resp.status = 500)
                => UNCHANGED <<totalRequests, totalTokensUsed>> ]_vars

C10_Witness ==
    /\ ev.op = "messagesSent" /\ ev.resp.status = 500
    /\ totalRequests > 0 /\ totalTokensUsed > 0

\* C11: reset-stats sets both usage counters to 0 whatever they were, leaves
\* the held session id, currentModel and the suspended requests as they were,
\* and a reset-stats that directly follows a reset-stats changes nothing.
C11_ResetStatsZeroes ==
    [][ (ev'.op = "resetStats")
            => /\ totalRequests' = 0 /\ totalTokensUsed' = 0
               /\ UNCHANGED <<currentSessionId, currentModel, req>>
               /\ ev'.resp = [status |-> 200, body |-> [success |-> TRUE]]
               /\ (ev.op = "resetStats")
                     => UNCHANGED <<currentSessionId, totalTokensUsed, totalRequests,
                                    currentModel, req, ev>> ]_vars

C11_Witness ==
    /\ ev.op = "resetStats" /\ totalRequests = 0 /\ totalTokensUsed = 0
    /\ currentSessionId # NoSession /\ currentModel # DefaultModel
    /\ SendsInFlight(req) > 0

\* C12: a reset-session request issues a session-creation call whether or
\* not a session id is held; when the backend answers with an id, that id
\* becomes the held id and is the one the response carries, so an id that
\* differs from the held one replaces it.
C12_ResetSessionCreates ==
    [][ /\ (ev'.op = "resetSession")
             => /\ ev'.call = CreateCall
                /\ req' = req (+) SetToBag({AwaitReset})
                /\ currentSessionId' = currentSessionId
        /\ (ev'.op = "resetSessionResumed")
             => \A reply \in CreateReplies :
               (reply.ok /\ ResetSessionResumed(reply))
                  => /\ currentSessionId' = reply.id
                     /\ ev'.resp = [status |-> 200,
                                    body |-> [success |-> TRUE, sessionId |-> reply.id]]
                     /\ (reply.id # currentSessionId
                            => currentSessionId' # currentSessionId) ]_vars

C12_Witness ==
    /\ ev.op = "resetSessionResumed" /\ ev.resp.status = 200
    /\ ev.held # NoSession /\ currentSessionId # ev.held
    /\ currentSessionId = ev.resp.body.sessionId

\* the last step handled a failed session-creation call
CreationFailed ==
    \/ ev.op = "messagesCreated" /\ ev.resp = ApiError("Failed to create session")
    \/ ev.op = "resetSessionResumed" /\ ev.resp.status # 200

\* C13: after a failed session-creation call, made by a chat request or by
\* reset-session, no session id is held, and a chat request that comes next
\* issues a session-creation call. (Violated: the failure leaves the id that
\* was held in place.)
C13_NoIdAfterFailedCreation ==
    [][ /\ \A reply \in CreateReplies :
               (/\ ~reply.ok
                /\ \/ ResetSessionResumed(reply)
                   \/ \E c \in Suspended : MessagesCreated(c, reply))
                  => currentSessionId' = NoSession
        /\ (CreationFailed /\ ev'.op = "messages" /\ ChatShape(ev'.body))
               => ev'.call = CreateCall ]_vars

\* the backend's non-success reply to either call
Failure == [ok |-> FALSE]

\* C14: when the session-creation call or the message-send call of a chat
\* request fails, the request is answered 500 {error: {type: "api_error",
\* message}}, and the step issues no further backend call: the request is no
\* longer in flight and nothing else is.
C14_ChatFailureIs500 ==
    [][ (ev'.op \in {"messagesCreated", "messagesSent"})
          => \A c \in Suspended :
           (MessagesCreated(c, Failure) \/ MessagesSent(c, Failure))
              => /\ ev'.resp.status = 500
                 /\ DOMAIN ev'.resp.body = {"error"}
                 /\ ev'.resp.body.error.type = "api_error"
                 /\ ev'.resp.body.error.message
                        = IF c.pc = "awaitCreate" THEN "Failed to create session"
                          ELSE "Failed to send message"
                 /\ ev'.call = NoCall /\ ev'.relay = NoRelay
                 /\ req' = req (-) SetToBag({c}) ]_vars

C14_Witness ==
    /\ ev.op = "messagesCreated" /\ ev.resp.status = 500
    /\ ev.resp.body.error.message = "Failed to create session"
    /\ ev.call = NoCall /\ req = EmptyBag /\ currentSessionId = NoSession

\* C15: when the session-creation call of a reset-session request fails, the
\* request is answered with an error response. (Violated: the handler has no
\* catch, and the request may never be answered.)
C15_ResetFailureAnswered ==
    [][ ResetSessionResumed(Failure) => ev'.resp.status \in 400..599 ]_vars

\* the empty result of a permissive endpoint: zero tokens, or the no-op reply
EmptyResult(resp) ==
    /\ resp.status = 200
    /\ \/ resp.body = [tokens |-> 0]
       \/ /\ "content" \in DOMAIN resp.body
          /\ resp.body.content = << [type |-> "text", text |-> "OK"] >>

\* C16: a POST /v1/messages or POST /v1/messages/count_tokens request whose
\* messages field is absent or is not a list is answered with an empty
\* result, not an error, issues no backend call and leaves the session id as
\* it was. (Violated: /v1/messages creates a session and answers 500, and
\* both endpoints answer 500 to messages that is not a list.)
C16_MissingMessagesPermissive ==
    [][ /\ (ev'.op = "messages" /\ ev'.body.messages.kind # "list")
             => /\ EmptyResult(ev'.resp)
                /\ ev'.call = NoCall /\ req' = req
                /\ currentSessionId' = currentSessionId
        /\ (ev'.op = "countTokens" /\ ev'.body.messages.kind # "list")
             => /\ EmptyResult(ev'.resp)
                /\ ev'.call = NoCall /\ req' = req
                /\ currentSessionId' = currentSessionId ]_vars

\* C17: a chat request that finds no session id held issues a
\* session-creation call even when one is already in flight, and every
\* creation that succeeds installs its id over whatever is held by then: of
\* two racing creations the one that resumes last decides the held id.
C17_LastCreationWins ==
    [][ /\ (ev'.op = "messages" /\ ChatShape(ev'.body) /\ currentSessionId = NoSession)
             => /\ ev'.call = CreateCall
                /\ CreatesInFlight(req') = CreatesInFlight(req) + 1
        /\ (ev'.op = "messagesCreated")
             => \A c \in Suspended, reply \in CreateReplies :
               (reply.ok /\ MessagesCreated(c, reply))
                  => currentSessionId' = reply.id ]_vars

\* both racing requests have created a session and sent their message, each to
\* its own session; the id of the one that resumed last is held
C17_Witness ==
    /\ ev.op = "messagesCreated" /\ ev.held # NoSession /\ currentSessionId # ev.held
    /\ ev.call.kind = "send" /\ ev.call.sid = currentSessionId
    /\ SendsInFlight(req) = 2
    /\ \E c \in Suspended : c.pc = "awaitSend" /\ c.sid = ev.held

\* C18: whatever the interleaving of the chat requests in flight, as long as
\* no reset-stats runs totalRequests is the number of chat requests answered
\* 200 and totalTokensUsed the sum of the tokens the backend reported to them.
C18_NoLostUpdate ==
    totalRequests = hist.completed /\ totalTokensUsed = hist.reported

\* one request has completed while another was in flight
C18_Witness ==
    /\ ev.op = "messagesSent" /\ ev.resp.status = 200 /\ SendsInFlight(req) = 1
    /\ hist.completed = 1 /\ hist.reported = 7 /\ totalTokensUsed = 7

\* C19: failures leave nothing behind. Whatever has failed before, a chat
\* request with a list of messages that finds no session id held issues a
\* session-creation call and one that finds an id sends to it (or is answered
\* 200 at once); resumed with a session it sends to that session; and it is
\* answered 500 only by a step that received a failed reply of the backend,
\* 200 by the step that received a successful reply to its message.
C19_NoStickyFailure ==
    /\ (ev.op = "messages" /\ ChatShape(ev.body) /\ ev.body.messages.kind = "list")
          => IF ev.held = NoSession
             THEN ev.call = CreateCall /\ ev.resp = NoResponse
             ELSE \/ ev.call.kind = "send" /\ ev.call.sid = ev.held /\ ev.resp = NoResponse
                  \/ ev.resp.status = 200
    /\ (ev.op = "messagesCreated" /\ ev.body.messages.kind = "list")
          => \/ /\ ev.call.kind = "send" /\ ev.resp = NoResponse
                /\ ev.call.sid = currentSessionId /\ currentSessionId # NoSession
             \/ ev.resp.status = 200
             \/ /\ ev.resp.status = 500
                /\ ev.resp.body.error.message = "Failed to create session"
    /\ (ev.op = "messagesSent")
          => IF ev.body.reply.ok
             THEN ev.resp.status = 200 /\ ev.resp.body.type = "message"
             ELSE ev.resp.status = 500

\* a chat request that arrived after a failed one, with no reset in
\* between, has created a session and been answered 200
C19_Witness ==
    /\ hist.failed /\ ev.op = "messagesSent" /\ ev.resp.status = 200
    /\ hist.completed = 1 /\ currentSessionId # NoSession

\* the replies with which the backend may answer a suspended chat request
AnsweredBy(c) ==
    \/ \E reply \in CreateReplies : MessagesCreated(c, reply)
    \/ \E reply \in SendReplies : MessagesSent(c, reply)

\* the step that handles the backend's reply to the call c waits for
ResumptionOf(c) ==
    IF c.pc = "awaitCreate" THEN "messagesCreated"
    ELSE IF c.pc = "awaitSend" THEN "messagesSent"
    ELSE "resetSessionResumed"

\* requests of each kind that suspends nowhere
ServedAtOnce ==
    /\ ENABLED GetStatus
    /\ ENABLED ResetStats
    /\ ENABLED (\E modelId \in ModelIdInputs : PostModel(modelId))
    /\ ENABLED (\E messages \in MessagesFields : PostCountTokens(messages))
    /\ ENABLED (\E body \in Bodies : IsCountOnly(body) /\ PostMessages(body))

\* a further chat request is taken up (the bounds of the model permitting)
ChatAdmitted ==
    (BagCardinality(req) < MaxInFlight /\ totalRequests + InFlightChats < MaxRequests)
        => ENABLED (\E body \in Bodies : ~IsCountOnly(body) /\ PostMessages(body))

\* C20: a chat request suspended at a backend call stays suspended, with no
\* response, through every step that is not its resumption with the
\* backend's reply; and while requests are suspended, status, model
\* selection, reset-stats, count-only and count_tokens requests are served,
\* chat requests are admitted and every suspended chat request can be
\* resumed, whatever the others wait for.
C20_HungCallBlocksNothing ==
    /\ [](req # EmptyBag
            => /\ ServedAtOnce
               /\ ChatAdmitted
               /\ \A c \in Suspended :
                      c.pc \in {"awaitCreate", "awaitSend"} => ENABLED AnsweredBy(c))
    /\ [][ /\ \A c \in Suspended :
                  (c.pc \in {"awaitCreate", "awaitSend"}
                   /\ CopiesIn(c, req') < CopiesIn(c, req))
                     => ev'.op = ResumptionOf(c)
           /\ (ev'.op \in {"messagesCreated", "messagesSent"} /\ ev'.resp # NoResponse)
                => /\ BagCardinality(req') = BagCardinality(req) - 1
                   /\ \E c \in Suspended :
                          /\ ev'.op = ResumptionOf(c)
                          /\ CopiesIn(c, req') = CopiesIn(c, req) - 1 ]_vars

\* a model selection has been served while one chat request waits for its
\* session and another for the reply to its message
C20_Witness ==
    /\ ev.op = "model" /\ ev.resp.status = 200
    /\ CreatesInFlight(req) = 1 /\ SendsInFlight(req) = 1

\* C24: GET /api/status changes no state and reports currentModel,
\* totalRequests and totalTokensUsed as they are, with sessionId "active"
\* when a session id is held and "inactive" when none is.
C24_StatusReportsState ==
    (ev.op = "status")
        => /\ ev.resp.status = 200
           /\ ev.resp.body.currentModel = currentModel
           /\ ev.resp.body.totalRequests = totalRequests
           /\ ev.resp.body.totalTokensUsed = totalTokensUsed
           /\ currentSessionId = ev.held
           /\ ev.resp.body.sessionId = "active" <=> currentSessionId # NoSession
           /\ ev.resp.body.sessionId = "inactive" <=> currentSessionId = NoSession
           /\ ev.call = NoCall

C24_Witness ==
    /\ ev.op = "status" /\ ev.resp.body.sessionId = "active"
    /\ ev.resp.body.totalRequests = 2 /\ ev.resp.body.totalTokensUsed = 7
    /\ ev.resp.body.currentModel = "openai/gpt-4o" /\ req # EmptyBag

\* C25: a chat request answered 200 is answered with a message of role
\* "assistant" and stop_reason "end_turn", whose content is the one text part
\* carrying the text sendMessage returned, whose model is currentModel as it
\* is when the response is built, and whose output_tokens is
\* ceil(length(text) / 4).
C25_ResponseEnvelope ==
    (ChatStep /\ ev.resp.status = 200)
        => /\ ev.relay.kind = "result"
           /\ ev.resp.body.type = "message"
           /\ ev.resp.body.role = "assistant"
           /\ ev.resp.body.stop_reason = "end_turn"
           /\ ev.resp.body.content = << [type |-> "text", text |-> ev.relay.text] >>
           /\ ev.resp.body.model = currentModel
           /\ ev.resp.body.usage.output_tokens * 4 >= Len(ev.relay.text)
           /\ ev.resp.body.usage.output_tokens * 4 < Len(ev.relay.text) + 4

\* the request names one model, the response another: the selected one
C25_Witness ==
    /\ ev.op = "messages" /\ ev.resp.status = 200 /\ ev.body.hasMaxTokens
    /\ ev.body.model = RequestModel
    /\ ev.resp.body.model = "openai/gpt-4o" /\ currentModel = "openai/gpt-4o"
    /\ ev.resp.body.usage.output_tokens = 1

\* C27: a message-send call is never issued without a session id, and the id
\* it is addressed to is the session id held when it is issued.
C27_SendToHeldSession ==
    (ev.call.kind = "send")
        => /\ ev.call.sid # NoSession
           /\ ev.call.sid \in SessionIds
           /\ ev.call.sid = currentSessionId
           /\ BagIn(AwaitSend(currentSessionId, ev.call.text), req)

\* the send of a request whose creation raced with another
C27_Witness ==
    /\ ev.op = "messagesCreated" /\ ev.call.kind = "send"
    /\ ev.held # NoSession /\ ev.call.sid # ev.held
    /\ currentModel # DefaultModel

\* C28: a chat request with no qualifying user message contacts the backend
\* in no way: it issues no backend call, also when no session id is held,
\* and leaves the session id as it was. (Violated: the session is created
\* before the messages are looked at.)
C28_NoOpContactsNothing ==
    (/\ ev.op \in {"messages", "messagesCreated"} /\ ChatShape(ev.body)
     /\ ev.body.messages.kind = "list"
     /\ QualifyingIndexes(ev.body.messages.items) = {})
        => /\ ev.op = "messages"
           /\ ev.call = NoCall
           /\ currentSessionId = ev.held

\* the last step handled a failed reply to a message-send call
SendFailed == ev.op = "messagesSent" /\ ~ev.body.reply.ok

\* C29: a failed message-send call leaves the held session id as it was, and
\* a chat request that comes next while the id is held issues no
\* session-creation call and sends to that id.
C29_SendFailureKeepsSession ==
    /\ [](SendFailed => currentSessionId = ev.held)
    /\ [][ (SendFailed /\ currentSessionId # NoSession
            /\ ev'.op = "messages" /\ ChatShape(ev'.body))
              => /\ ev'.call.kind # "create"
                 /\ currentSessionId' = currentSessionId
                 /\ ev'.call.kind = "send" => ev'.call.sid = currentSessionId ]_vars

C29_Witness ==
    /\ SendFailed /\ ev.held # NoSession /\ currentSessionId = ev.held
    /\ ev.resp.status = 500 /\ req = EmptyBag

\* C30: currentModel is always the id of a registered model: the default is
\* registered, and currentModel changes only in a model selection whose id
\* the registry holds, to that id.
C30_ModelRegistered ==
    /\ DefaultModel \in RegistryIds
    /\ [](currentModel \in RegistryIds)
    /\ [][ currentModel' # currentModel
              => /\ ev'.op = "model"
                 /\ ev'.body.modelId \in RegistryIds
                 /\ currentModel' = ev'.body.modelId ]_vars

C30_Witness ==
    /\ ev.op = "model" /\ ev.body.modelId = "no/such-model"
    /\ currentModel = "openai/gpt-4o" /\ ev.resp.status = 400

\* every session-creation call in flight was issued before the last
\* successful model selection
AllCreationsStale == hist.stale > 0 /\ hist.stale = CreatesInFlight(req)

\* C26: a session-creation call that was in flight when the model was
\* selected does not install its id: the step that handles its reply leaves
\* the held session id as the selection and the later creations made it.
\* (Violated: the reply is assigned to currentSessionId whenever it comes.)
C26_StaleCreationNotInstalled ==
    [][ (AllCreationsStale /\ ev'.op \in {"messagesCreated", "resetSessionResumed"})
            => currentSessionId' = currentSessionId ]_vars

\* the answer of a counting handler to a messages field that is absent or a
\* list: 200 with the sum of the per-message estimates, 0 when absent, and
\* no backend call
CountsAllText(op) ==
    (ev.op = op /\ ev.body.messages.kind \in {"absent", "list"})
        => /\ ev.resp = [status |-> 200,
                         body |-> [tokens |-> IF ev.body.messages.kind = "absent" THEN 0
                                              ELSE SumOfEstimates(ev.body.messages.items)]]
           /\ ev.call = NoCall
           /\ currentSessionId = ev.held

\* C21: POST /v1/messages/count_tokens answers {tokens: the sum over the
\* messages of ceil(length(extractText(content)) / 4)}, 0 when messages is
\* absent, and calls no backend, in proxy.ts and in the older variant.
\* (Violated by the older variant, which reads only content[0].text.)
C21_CountTokensSumsEstimates ==
    CountsAllText("countTokens") /\ CountsAllText("countTokensLegacy")

\* what the claims expect of one element of a content array
PartText(p) ==
    IF p.kind = "string" THEN p.text
    ELSE IF "text" \in DOMAIN p THEN p.text
    ELSE ""

\* the texts of the first n elements, in order, with nothing between them
RECURSIVE InOrder(_, _)
InOrder(ps, n) == IF n = 0 THEN "" ELSE InOrder(ps, n - 1) \o PartText(ps[n])

AbcContent == Arr(<< PObj("a"), PStr("b"), PObj("c") >>)

\* C22: extractText returns a string content unchanged, the in-order
\* concatenation without separator of the element texts of a sequence (a
\* string element is its own text, any other element gives its text field
\* or ""), "" for every other shape including null, and a result for every
\* content; [{text:"a"},"b",{text:"c"}] gives "abc".
C22_ExtractTextShapeExact ==
    ev.op = "extractText"
        => /\ ev.content.kind = "string" => ev.result = ev.content.text
           /\ ev.content.kind = "array"
                 => ev.result = InOrder(ev.content.parts, Len(ev.content.parts))
           /\ ev.content.kind \notin {"string", "array"} => ev.result = ""
           /\ ev.content = AbcContent => ev.result = "abc"
           /\ Len(ev.result) >= 0

C22_Witness ==
    ev.op = "extractText" /\ ev.content = AbcContent /\ ev.result = "abc"

\* t is ceil(n / 4)
IsCeilingOfQuarter(t, n) == 4 * t >= n /\ 4 * t < n + 4

\* the messages' texts put together
RECURSIVE ConcatenatedText(_)
ConcatenatedText(items) ==
    IF items = <<>> THEN ""
    ELSE extractTextFromContent(Head(items).content) \o ConcatenatedText(Tail(items))

\* C23: the estimate of a text of length n is ceil(n / 4): 0 for the empty
\* text, 1 for lengths 1..4, 2 for length 5; the count of a request is the
\* sum of the estimates of its messages.
C23_EstimateIsCeiling ==
    /\ ev.op = "estimate"
          => LET n == Len(ev.text)
             IN  /\ IsCeilingOfQuarter(ev.result, n)
                 /\ n = 0 => ev.result = 0
                 /\ n \in 1..4 => ev.result = 1
                 /\ n = 5 => ev.result = 2
    /\ (ev.op \in {"countTokens", "messages"} /\ ev.body.messages.kind = "list")
          => ev.resp = [status |-> 200,
                        body |-> [tokens |-> SumOfEstimates(ev.body.messages.items)]]

\* a count that is not the estimate of the concatenated text: "a" and
\* "abcde" count 1 + 2, their six characters together would count 2
C23_Witness ==
    /\ ev.op = "countTokens"
    /\ ev.body.messages = List(<< U(Str("a")), U(Str("abcde")) >>)
    /\ ev.resp.body.tokens = 3
    /\ IsCeilingOfQuarter(2, Len(ConcatenatedText(ev.body.messages.items)))

\* the step serves POST /v1/messages/count_tokens after the counting form of
\* POST /v1/messages of the same implementation was served the same list
SameListRecounted(first, second) ==
    /\ ev.op = first
    /\ ev'.op = second
    /\ ev'.body.messages = ev.body.messages

\* C31: for every message list, the counting form of POST /v1/messages and
\* POST /v1/messages/count_tokens answer the same token count, in proxy.ts
\* and in the older variant, contents that are sequences of parts included.
\* (Violated by the older variant: its POST /v1/messages counts 0 for every
\* content that is not a string, its count_tokens reads content[0].text.)
C31_CountingRoutesAgree ==
    [][ (\/ SameListRecounted("messages", "countTokens")
         \/ SameListRecounted("messagesLegacy", "countTokensLegacy"))
            => ev'.resp = ev.resp ]_vars

====
